---- MODULE Spec2Model ----
(***************************************************************************)
(* Room lifecycle and broadcast engine of the chat server.                 *)
(*                                                                         *)
(* The repository holds two builds of the server: the one with per-room    *)
(* username tracking (src/unnamed/part_000) and the one that broadcasts a  *)
(* "Deletion canceled" notice instead (src/server.js).  The variable       *)
(* `variant` records which build is running; it never changes.            *)
(*                                                                         *)
(* JavaScript strings are sequences of one-character strings, so that      *)
(* trim(), toLowerCase() and includes() are computed rather than assumed.  *)
(* A value that may be undefined or null is a tagged record.               *)
(***************************************************************************)
EXTENDS Integers, Sequences, FiniteSets, TLC

VARIABLES
  variant,     \* which build runs: "part_000" or "server.js"
  now,         \* Date.now(), in milliseconds
  ticks,       \* number of clock advances so far (bounds the run)
  nextSweep,   \* earliest time the setInterval callback may run next
  rooms,       \* const rooms = {}: room code -> room object
  file,        \* content of rooms.json: room code -> persisted fields
  timers,      \* outstanding setTimeout handles: [id, code, due]
  connected,   \* socket -> the connection is open
  data,        \* socket -> socket.data (part_000)
  joinedRoom,  \* socket -> closure variable joinedRoom (server.js)
  userName,    \* socket -> closure variable userName (server.js)
  inRoom,      \* socket -> room codes the transport has the socket in
  live,        \* socket -> codes joined and not deleted since (history)
  everJoined   \* socket -> a join of this connection was accepted (history)

vars == <<variant, now, ticks, nextSweep, rooms, file, timers, connected,
          data, joinedRoom, userName, inRoom, live, everJoined>>

-----------------------------------------------------------------------------
(* Bounds of the model *)

MaxTicks == 2
MaxHist == 3
MaxMembers == 2
MaxAppends == 6
Sockets == {1, 2}
Handles == {1, 2}

-----------------------------------------------------------------------------
(* JavaScript values *)

undefined == [undef |-> TRUE]
null == [nil |-> TRUE]
Str(s) == [str |-> s]
Num(n) == [num |-> n]

IsStr(v) == DOMAIN v = {"str"}
IsNum(v) == DOMAIN v = {"num"}

\* ToBoolean: undefined, null, "" and 0 are falsy
Truthy(v) ==
  \/ IsStr(v) /\ Len(v.str) > 0
  \/ IsNum(v) /\ v.num # 0

\* a || b
Or(a, b) == IF Truthy(a) THEN a ELSE b

\* String(v) of a string value
String(v) == v.str

Whitespace == {" ", "\t", "\n"}

RECURSIVE trimStart(_)
trimStart(s) ==
  IF s # <<>> /\ Head(s) \in Whitespace THEN trimStart(Tail(s)) ELSE s

RECURSIVE trimEnd(_)
trimEnd(s) ==
  IF s # <<>> /\ s[Len(s)] \in Whitespace
  THEN trimEnd(SubSeq(s, 1, Len(s) - 1))
  ELSE s

trim(s) == trimEnd(trimStart(s))

UpperToLower ==
  [c \in {"A", "B", "C", "D", "E", "F", "G", "H", "I", "J", "K", "L", "M",
          "N", "O", "P", "Q", "R", "S", "T", "U", "V", "W", "X", "Y", "Z"} |->
     CASE c = "A" -> "a" [] c = "B" -> "b" [] c = "C" -> "c" [] c = "D" -> "d"
       [] c = "E" -> "e" [] c = "F" -> "f" [] c = "G" -> "g" [] c = "H" -> "h"
       [] c = "I" -> "i" [] c = "J" -> "j" [] c = "K" -> "k" [] c = "L" -> "l"
       [] c = "M" -> "m" [] c = "N" -> "n" [] c = "O" -> "o" [] c = "P" -> "p"
       [] c = "Q" -> "q" [] c = "R" -> "r" [] c = "S" -> "s" [] c = "T" -> "t"
       [] c = "U" -> "u" [] c = "V" -> "v" [] c = "W" -> "w" [] c = "X" -> "x"
       [] c = "Y" -> "y" [] c = "Z" -> "z"]

toLowerCase(s) ==
  [i \in 1..Len(s) |->
     IF s[i] \in DOMAIN UpperToLower THEN UpperToLower[s[i]] ELSE s[i]]

\* s.includes(w)
includes(s, w) ==
  \E i \in 1..(Len(s) - Len(w) + 1) : SubSeq(s, i, i + Len(w) - 1) = w

\* s.slice(0, n)
sliceTo(s, n) == SubSeq(s, 1, IF Len(s) < n THEN Len(s) ELSE n)

\* slice(0, n) in place of slice(-n): keeps the oldest entries
sliceLast_oldest(a, n) == SubSeq(a, 1, IF Len(a) < n THEN Len(a) ELSE n)

\* a.slice(-n)
sliceLast(a, n) ==
  IF Len(a) <= n THEN a ELSE SubSeq(a, Len(a) - n + 1, Len(a))

-----------------------------------------------------------------------------
(* Constants of the program *)

ONE_HOUR == 60 * 60 * 1000
SWEEP_INTERVAL == 60 * 1000
GRACE_DELAY == 60 * 1000
HISTORY_MAX == 1000
HISTORY_KEEP == 800
TEXT_MAX == 5000

DEFAULT_ROOM == <<"d", "e", "f", "a", "u", "l", "t">>
ANON == <<"A", "n", "o", "n">>
SYSTEM == <<"S", "y", "s", "t", "e", "m">>

RESERVED_NAMES ==
  { <<"s", "y", "s", "t", "e", "m">>,
    <<"o", "w", "n", "e", "r">>,
    <<"a", "d", "m", "i", "n">>,
    <<"m", "o", "d", "e", "r", "a", "t", "o", "r">> }

BANNED_WORDS ==
  { <<"b", "a", "d", "w", "o", "r", "d", "1">>,
    <<"b", "a", "d", "w", "o", "r", "d", "2">>,
    <<"s", "l", "u", "r", "1">>,
    <<"s", "l", "u", "r", "2">> }

ERR_RESERVED == "That username is reserved."
ERR_BANNED == "That username is not allowed."
ERR_TAKEN == "That username is already taken in this room."
ERR_PASSWORD == "Wrong password or room does not exist."
ERR_FULL == "This room is full."

JOINED_SUFFIX ==
  <<" ", "j", "o", "i", "n", "e", "d", " ", "t", "h", "e", " ", "r", "o",
    "o", "m", ".">>
LEFT_SUFFIX ==
  <<" ", "l", "e", "f", "t", " ", "t", "h", "e", " ", "r", "o", "o", "m",
    ".">>
WARN_TEXT ==
  <<"T", "h", "i", "s", " ", "r", "o", "o", "m", " ", "i", "s", " ", "o",
    "v", "e", "r", " ", "1", " ", "h", "o", "u", "r", " ", "o", "l", "d",
    " ", "a", "n", "d", " ", "w", "i", "l", "l", " ", "b", "e", " ", "d",
    "e", "l", "e", "t", "e", "d", " ", "i", "n", " ", "6", "0", "s", " ", 
    "u", "n", "l", "e", "s", "s", " ", "t", "h", "e", "r", "e", " ", "i",
    "s", " ", "a", "c", "t", "i", "v", "i", "t", "y", ".">>
CANCEL_TEXT ==
  <<"D", "e", "l", "e", "t", "i", "o", "n", " ", "c", "a", "n", "c", "e",
    "l", "e", "d", ":", " ", "r", "o", "o", "m", " ", "a", "c", "t", "i",
    "v", "i", "t", "y", " ", "d", "e", "t", "e", "c", "t", "e", "d", ".">>

-----------------------------------------------------------------------------
(* Room store, persistence and expiry scheduler.                           *)
(* Each function of the source is an operator from the world W before the  *)
(* call to the world after it.  W holds what the functions read and write: *)
(* the variables of the module, and in W.out the outbound events the       *)
(* handler has emitted so far, in order.                                   *)

\* the fields saveRooms writes for one room
Persisted(r) ==
  [createdAt |-> r.createdAt, lastActiveAt |-> r.lastActiveAt,
   messages |-> r.messages, password |-> r.password, limit |-> r.limit]

saveRooms(W) ==
  [W EXCEPT !.file = [c \in DOMAIN W.rooms |-> Persisted(W.rooms[c])]]

\* the room object literal of ensureRoom (server.js has no usernames field;
\* there the set stays empty and is never read)
NewRoom ==
  [createdAt |-> now, lastActiveAt |-> now, messages |-> <<>>,
   members |-> 0, deleteTimerId |-> null, warningSent |-> FALSE,
   password |-> null, limit |-> null, usernames |-> {}]

\* rooms[code] = r
PutRoom(rs, code, r) ==
  [c \in DOMAIN rs \cup {code} |-> IF c = code THEN r ELSE rs[c]]

\* delete rooms[code]
RemoveRoom(rs, code) == [c \in DOMAIN rs \ {code} |-> rs[c]]

ensureRoom(W, code) ==
  IF code \in DOMAIN W.rooms
  THEN W
  ELSE saveRooms([W EXCEPT !.rooms = PutRoom(W.rooms, code, NewRoom)])

\* io.to(code): the sockets the transport has in room code
InRoomOf(W, code) == {s \in Sockets : code \in W.inRoom[s]}

\* io.to(code).emit(...) and socket.to(code).emit(...)
Emit(W, e) == [W EXCEPT !.out = Append(W.out, e)]

MessageEvent(code, to, m) ==
  [ev |-> "message", room |-> code, to |-> to, msg |-> m]

SystemMsg(text) == [name |-> SYSTEM, text |-> text, system |-> TRUE]

RECURSIVE addMessage(_, _, _)

\* server.js only: the notice inside cancelDeletion
cancelNotice(W, code) ==
  IF W.rooms[code].members > 0
  THEN LET W1 == addMessage(W, code, SystemMsg(CANCEL_TEXT))
       IN  Emit(W1, MessageEvent(code, InRoomOf(W1, code),
                                 SystemMsg(CANCEL_TEXT)))
  ELSE W

\* clearTimeout that leaves the timer outstanding
clearTimeout_noop(ts, handle) == ts

\* clearTimeout(handle)
clearTimeout(ts, handle) == {t \in ts : t.id # handle.timer}

\* cancelDeletion that leaves warningSent as it is
cancelDeletion_keepwarning(W, code) ==
  IF code \in DOMAIN W.rooms /\ W.rooms[code].deleteTimerId # null
  THEN LET r == W.rooms[code]
           W1 == [W EXCEPT
                    !.timers = clearTimeout(W.timers, r.deleteTimerId),
                    !.rooms[code].deleteTimerId = null]
       IN  IF variant = "server.js" THEN cancelNotice(W1, code) ELSE W1
  ELSE W

cancelDeletion(W, code) ==
  IF code \in DOMAIN W.rooms /\ W.rooms[code].deleteTimerId # null
  THEN LET r == W.rooms[code]
           W1 == [W EXCEPT
                    !.timers = clearTimeout(W.timers, r.deleteTimerId),
                    !.rooms[code].deleteTimerId = null,
                    !.rooms[code].warningSent = FALSE]
       IN  IF variant = "server.js" THEN cancelNotice(W1, code) ELSE W1
  ELSE W

addMessage(W, code, msg) ==
  LET W1 == ensureRoom(W, code)
      m == [name |-> msg.name, text |-> msg.text, system |-> msg.system,
            timestamp |-> now]
      pushed == Append(W1.rooms[code].messages, m)
      kept == IF Len(pushed) > HISTORY_MAX
              THEN sliceLast(pushed, HISTORY_KEEP)
              ELSE pushed
      W2 == [W1 EXCEPT !.rooms[code].messages = kept,
                       !.rooms[code].lastActiveAt = now]
  IN  saveRooms(cancelDeletion(W2, code))

\* deleteRoom without the snapshot write
deleteRoom_nosave(W, code) ==
  IF code \notin DOMAIN W.rooms
  THEN W
  ELSE LET W1 == Emit(W, [ev |-> "room-deleted", room |-> code,
                          to |-> InRoomOf(W, code)])
       IN  [W1 EXCEPT
              !.rooms = RemoveRoom(W1.rooms, code),
              !.live = [s \in Sockets |-> W1.live[s] \ {code}]]

deleteRoom(W, code) ==
  IF code \notin DOMAIN W.rooms
  THEN W
  ELSE LET W1 == Emit(W, [ev |-> "room-deleted", room |-> code,
                          to |-> InRoomOf(W, code)])
           W2 == [W1 EXCEPT
                    !.rooms = RemoveRoom(W1.rooms, code),
                    !.live = [s \in Sockets |-> W1.live[s] \ {code}]]
       IN  saveRooms(W2)

\* a handle no outstanding timer and no room holds
FreshTimer(W) ==
  LET used == {t.id : t \in W.timers} \cup
              {W.rooms[c].deleteTimerId.timer :
                 c \in {d \in DOMAIN W.rooms : W.rooms[d].deleteTimerId # null}}
  IN  CHOOSE i \in 1..(Cardinality(used) + 1) : i \notin used

\* setTimeout(() => deleteRoom(code), delay)
setTimeout(W, code, delay) ==
  LET id == FreshTimer(W)
  IN  [W EXCEPT !.timers = W.timers \cup
                             {[id |-> id, code |-> code, due |-> now + delay]},
                !.rooms[code].deleteTimerId = [timer |-> id]]

\* scheduleDeletion without the guard on a timer already recorded
scheduleDeletion_noguard(W, code, delay, reason) ==
  IF code \notin DOMAIN W.rooms
  THEN W
  ELSE LET r == W.rooms[code]
           W1 == IF reason = "age" /\ r.members > 0 /\ ~r.warningSent
                 THEN LET Wa == [W EXCEPT !.rooms[code].warningSent = TRUE]
                          Wb == addMessage(Wa, code, SystemMsg(WARN_TEXT))
                      IN  Emit(Wb, MessageEvent(code, InRoomOf(Wb, code),
                                                SystemMsg(WARN_TEXT)))
                 ELSE W
       IN  setTimeout(W1, code, delay)

\* scheduleDeletion that sets the timer without the warning
scheduleDeletion_nowarn(W, code, delay, reason) ==
  IF code \notin DOMAIN W.rooms \/ W.rooms[code].deleteTimerId # null
  THEN W
  ELSE setTimeout(W, code, delay)

scheduleDeletion(W, code, delay, reason) ==
  IF code \notin DOMAIN W.rooms \/ W.rooms[code].deleteTimerId # null
  THEN W
  ELSE LET r == W.rooms[code]
           W1 == IF reason = "age" /\ r.members > 0 /\ ~r.warningSent
                 THEN LET Wa == [W EXCEPT !.rooms[code].warningSent = TRUE]
                          Wb == addMessage(Wa, code, SystemMsg(WARN_TEXT))
                      IN  Emit(Wb, MessageEvent(code, InRoomOf(Wb, code),
                                                SystemMsg(WARN_TEXT)))
                 ELSE W
       IN  setTimeout(W1, code, delay)

\* the body of the setInterval callback over Object.entries(rooms); the
\* entries are visited one code at a time, and a visit touches only its own
\* room, so the visiting order does not change any room's outcome
RECURSIVE sweepOver(_, _)
sweepOver(W, codes) ==
  IF codes = {}
  THEN W
  ELSE LET code == CHOOSE c \in codes : TRUE
           r == W.rooms[code]
           W1 == IF r.members = 0
                 THEN deleteRoom(W, code)
                 ELSE IF now - r.createdAt >= ONE_HOUR
                      THEN scheduleDeletion(W, code, GRACE_DELAY, "age")
                      ELSE W
       IN  sweepOver(W1, codes \ {code})

\* Username validation (part_000)
isNameInvalid(W, name, roomCode) ==
  LET lower == toLowerCase(name)
  IN  IF lower \in RESERVED_NAMES THEN Str(ERR_RESERVED)
      ELSE IF \E w \in BANNED_WORDS : includes(lower, w) THEN Str(ERR_BANNED)
      ELSE IF roomCode \in DOMAIN W.rooms
              /\ lower \in W.rooms[roomCode].usernames
           THEN Str(ERR_TAKEN)
      ELSE null

-----------------------------------------------------------------------------
(* Inputs of the client events *)

RoomA == <<"a">>

\* payloads of the join event: { room, name, password, limit }
JoinPayload(room, name, password, limit) ==
  [room |-> room, name |-> name, password |-> password, limit |-> limit]

JoinInputs ==
  { JoinPayload(Str(RoomA), Str(<<"A">>), Str(<<"p">>), undefined),
    JoinPayload(Str(RoomA), Str(<<"B">>), Str(<<"p">>), Num(1)),
    JoinPayload(Str(RoomA), Str(<<"a">>), undefined, Num(2)),
    JoinPayload(Str(RoomA), Str(<<"a", "d", "m", "i", "n">>),
                undefined, undefined) }

\* payloads of the message event: { room, name, text }
MessagePayload(room, name, text) ==
  [room |-> room, name |-> name, text |-> text]

MessageInputs ==
  { MessagePayload(Str(RoomA), undefined, Str(<<"h", "i">>)),
    MessagePayload(undefined, undefined, undefined) }

\* the clock is read an hour apart: every timer and the sweep are then due
Elapsed == {ONE_HOUR}

-----------------------------------------------------------------------------
(* Handlers *)

\* the world a handler starts in: nothing emitted yet
World ==
  [rooms |-> rooms, file |-> file, timers |-> timers, out |-> <<>>,
   inRoom |-> inRoom, live |-> live, connected |-> connected,
   data |-> data, joinedRoom |-> joinedRoom, userName |-> userName,
   everJoined |-> everJoined]

JoinError(s, reason) == [ev |-> "join-error", to |-> {s}, error |-> reason]

\* Admit with the limit overwritten by every join that supplies one
Admit_overwrite(W, s, code, password, limit) ==
  LET r == W.rooms[code]
  IN  IF Truthy(r.password) /\ r.password # password
      THEN [ok |-> FALSE, W |-> Emit(W, JoinError(s, ERR_PASSWORD))]
      ELSE IF Truthy(r.limit) /\ r.members >= r.limit.num
      THEN [ok |-> FALSE, W |-> Emit(W, JoinError(s, ERR_FULL))]
      ELSE LET pw == IF ~Truthy(r.password) /\ Truthy(password)
                     THEN password ELSE r.password
               lim == IF Truthy(limit) THEN limit ELSE r.limit
           IN  [ok |-> TRUE,
                W |-> [W EXCEPT !.rooms[code].password = pw,
                                !.rooms[code].limit = lim,
                                !.rooms[code].members = r.members + 1]]

\* Admit without the password check
Admit_nopassword(W, s, code, password, limit) ==
  LET r == W.rooms[code]
  IN  IF Truthy(r.limit) /\ r.members >= r.limit.num
      THEN [ok |-> FALSE, W |-> Emit(W, JoinError(s, ERR_FULL))]
      ELSE LET pw == IF ~Truthy(r.password) /\ Truthy(password)
                     THEN password ELSE r.password
               lim == IF ~Truthy(r.limit) /\ Truthy(limit)
                      THEN limit ELSE r.limit
           IN  [ok |-> TRUE,
                W |-> [W EXCEPT !.rooms[code].password = pw,
                                !.rooms[code].limit = lim,
                                !.rooms[code].members = r.members + 1]]

\* the part of the join handler both builds share: password check, limit
\* check, set-once of password and limit, members += 1
Admit(W, s, code, password, limit) ==
  LET r == W.rooms[code]
  IN  IF Truthy(r.password) /\ r.password # password
      THEN [ok |-> FALSE, W |-> Emit(W, JoinError(s, ERR_PASSWORD))]
      ELSE IF Truthy(r.limit) /\ r.members >= r.limit.num
      THEN [ok |-> FALSE, W |-> Emit(W, JoinError(s, ERR_FULL))]
      ELSE LET pw == IF ~Truthy(r.password) /\ Truthy(password)
                     THEN password ELSE r.password
               lim == IF ~Truthy(r.limit) /\ Truthy(limit)
                      THEN limit ELSE r.limit
           IN  [ok |-> TRUE,
                W |-> [W EXCEPT !.rooms[code].password = pw,
                                !.rooms[code].limit = lim,
                                !.rooms[code].members = r.members + 1]]

\* socket.join(code)
socketJoin(W, s, code) ==
  [W EXCEPT !.inRoom[s] = W.inRoom[s] \cup {code},
            !.live[s] = W.live[s] \cup {code},
            !.everJoined[s] = TRUE]

\* the tail of the join handler both builds share: the "X joined" notice
announce(W, s, code, uName) ==
  LET joinText == uName \o JOINED_SUFFIX
      W1 == addMessage(W, code, SystemMsg(joinText))
  IN  Emit(W1, MessageEvent(code, InRoomOf(W1, code) \ {s},
                            SystemMsg(joinText)))

\* join that binds socket.data before the checks
join_bindfirst(W, s, p) ==
  LET code == trim(String(Or(p.room, Str(DEFAULT_ROOM))))
      uName == trim(String(Or(p.name, Str(ANON))))
      W0 == [W EXCEPT !.data[s] = [room |-> code, name |-> uName]]
      W1 == ensureRoom(W0, code)
      invalidReason == isNameInvalid(W1, uName, code)
      A == Admit(W1, s, code, p.password, p.limit)
      W2 == [A.W EXCEPT !.rooms[code].usernames =
                           A.W.rooms[code].usernames \cup {toLowerCase(uName)}]
      W3 == socketJoin(cancelDeletion(W2, code), s, code)
      W5 == Emit(W3, [ev |-> "joined", to |-> {s}, room |-> code])
  IN  IF invalidReason # null
      THEN Emit(W1, JoinError(s, invalidReason.str))
      ELSE IF ~A.ok THEN A.W
      ELSE announce(W5, s, code, uName)

\* socket.on("join") of part_000
join(W, s, p) ==
  LET code == trim(String(Or(p.room, Str(DEFAULT_ROOM))))
      W1 == ensureRoom(W, code)
      uName == trim(String(Or(p.name, Str(ANON))))
      invalidReason == isNameInvalid(W1, uName, code)
      A == Admit(W1, s, code, p.password, p.limit)
      W2 == [A.W EXCEPT !.rooms[code].usernames =
                           A.W.rooms[code].usernames \cup {toLowerCase(uName)}]
      W3 == socketJoin(cancelDeletion(W2, code), s, code)
      W4 == [W3 EXCEPT !.data[s] = [room |-> code, name |-> uName]]
      W5 == Emit(W4, [ev |-> "joined", to |-> {s}, room |-> code])
  IN  IF invalidReason # null
      THEN Emit(W1, JoinError(s, invalidReason.str))
      ELSE IF ~A.ok THEN A.W
      ELSE announce(W5, s, code, uName)

\* socket.on("join") of server.js
join_server(W, s, p) ==
  LET code == trim(String(Or(p.room, Str(DEFAULT_ROOM))))
      uName == trim(String(Or(p.name, Str(ANON))))
      W0 == [W EXCEPT !.userName[s] = Str(uName)]
      W1 == ensureRoom(W0, code)
      A == Admit(W1, s, code, p.password, p.limit)
      W3 == socketJoin(cancelDeletion(A.W, code), s, code)
      W4 == [W3 EXCEPT !.joinedRoom[s] = Str(code)]
      W5 == Emit(W4, [ev |-> "joined", to |-> {s}, room |-> code,
                      messages |-> W4.rooms[code].messages])
  IN  IF ~A.ok THEN A.W ELSE announce(W5, s, code, uName)

\* socket.data && socket.data.room, socket.data && socket.data.name
dataRoom(W, s) ==
  IF W.data[s] = undefined THEN undefined ELSE Str(W.data[s].room)
dataName(W, s) ==
  IF W.data[s] = undefined THEN undefined ELSE Str(W.data[s].name)

\* the body both message handlers share once room and name are resolved
deliver(W, code, nm, text) ==
  LET tx == sliceTo(String(Or(text, Str(<<>>))), TEXT_MAX)
      m == [name |-> nm, text |-> tx, system |-> FALSE]
      W1 == addMessage(W, code, m)
  IN  IF code = <<>> \/ tx = <<>>
      THEN W
      ELSE Emit(W1, MessageEvent(code, InRoomOf(W1, code), m))

\* socket.on("message") of part_000
message(W, s, p) ==
  deliver(W, String(Or(p.room, Or(dataRoom(W, s), Str(DEFAULT_ROOM)))),
          String(Or(p.name, Or(dataName(W, s), Str(ANON)))), p.text)

\* socket.on("message") of server.js
message_server(W, s, p) ==
  deliver(W, String(Or(p.room, Or(W.joinedRoom[s], Str(DEFAULT_ROOM)))),
          String(Or(p.name, Or(W.userName[s], Str(ANON)))), p.text)

\* leave that drops the room at zero members without the "left" notice
leave_nonotice(W, code, uName, lowerToDrop) ==
  LET r == W.rooms[code]
      W1 == [W EXCEPT
               !.rooms[code].members =
                  IF r.members - 1 > 0 THEN r.members - 1 ELSE 0,
               !.rooms[code].usernames = r.usernames \ lowerToDrop]
  IN  IF W1.rooms[code].members = 0 THEN deleteRoom(W1, code) ELSE W1

\* leave without the delete at zero members
leave_nodelete(W, code, uName, lowerToDrop) ==
  LET r == W.rooms[code]
      W1 == [W EXCEPT
               !.rooms[code].members =
                  IF r.members - 1 > 0 THEN r.members - 1 ELSE 0,
               !.rooms[code].usernames = r.usernames \ lowerToDrop]
  IN  addMessage(W1, code,
                 SystemMsg(String(Or(uName, Str(ANON))) \o LEFT_SUFFIX))

\* the body both disconnect handlers share once the bound room is known:
\* members floor-decrement, the "left" notice, the zero-member delete
leave(W, code, uName, lowerToDrop) ==
  LET r == W.rooms[code]
      W1 == [W EXCEPT
               !.rooms[code].members =
                  IF r.members - 1 > 0 THEN r.members - 1 ELSE 0,
               !.rooms[code].usernames = r.usernames \ lowerToDrop]
      W2 == addMessage(W1, code,
                       SystemMsg(String(Or(uName, Str(ANON))) \o LEFT_SUFFIX))
  IN  IF W2.rooms[code].members = 0 THEN deleteRoom(W2, code) ELSE W2

\* socket.on("disconnect") of part_000
disconnect(W, s) ==
  LET code == dataRoom(W, s)
      uName == dataName(W, s)
  IN  IF ~Truthy(code) \/ code.str \notin DOMAIN W.rooms
      THEN W
      ELSE leave(W, code.str, uName,
                 IF Truthy(uName) THEN {toLowerCase(uName.str)} ELSE {})

\* socket.on("disconnect") of server.js
disconnect_server(W, s) ==
  LET code == W.joinedRoom[s]
  IN  IF ~Truthy(code) \/ code.str \notin DOMAIN W.rooms
      THEN W
      ELSE leave(W, code.str, W.userName[s], {})

\* the transport takes a closing socket out of its rooms before it calls
\* the disconnect handler
leaveAll(W, s) ==
  [W EXCEPT !.inRoom[s] = {}, !.live[s] = {}, !.connected[s] = FALSE]

\* after the handler the socket object is garbage; the slot is free for
\* the next connection, which starts with fresh fields
discard(W, s) ==
  [W EXCEPT !.data[s] = undefined, !.joinedRoom[s] = null,
            !.userName[s] = null, !.everJoined[s] = FALSE]

\* the callback visiting only the rooms that are an hour old
sweep_agedonly(W) ==
  sweepOver(W, {c \in DOMAIN W.rooms :
                  now - W.rooms[c].createdAt >= ONE_HOUR})

\* the setInterval callback
sweep(W) == sweepOver(W, DOMAIN W.rooms)

\* the setTimeout callback of handle t: () => deleteRoom(code)
timeout(W, t) == deleteRoom([W EXCEPT !.timers = W.timers \ {t}], t.code)

\* the handler of the running build
JoinOf(W, s, p) ==
  IF variant = "part_000" THEN join(W, s, p) ELSE join_server(W, s, p)
MessageOf(W, s, p) ==
  IF variant = "part_000" THEN message(W, s, p) ELSE message_server(W, s, p)
DisconnectOf(W, s) ==
  IF variant = "part_000"
  THEN disconnect(leaveAll(W, s), s)
  ELSE disconnect_server(leaveAll(W, s), s)

-----------------------------------------------------------------------------
(* Steps *)

\* the run stays within the bounds of the model
Bounded(W) ==
  \A c \in DOMAIN W.rooms :
    /\ Len(W.rooms[c].messages) <= MaxHist
    /\ W.rooms[c].members <= MaxMembers

Apply(W) ==
  /\ rooms' = W.rooms
  /\ file' = W.file
  /\ timers' = W.timers
  /\ inRoom' = W.inRoom
  /\ live' = W.live
  /\ connected' = W.connected
  /\ data' = W.data
  /\ joinedRoom' = W.joinedRoom
  /\ userName' = W.userName
  /\ everJoined' = W.everJoined

Commit(W) == Bounded(W) /\ Apply(W)

\* io.on("connection"): a new socket object
OnConnection(s) ==
  /\ ~connected[s]
  /\ connected' = [connected EXCEPT ![s] = TRUE]
  /\ UNCHANGED <<variant, now, ticks, nextSweep, rooms, file, timers, data,
                 joinedRoom, userName, inRoom, live, everJoined>>

OnJoin(s, p) ==
  /\ connected[s]
  /\ Commit(JoinOf(World, s, p))
  /\ UNCHANGED <<variant, now, ticks, nextSweep>>

OnMessage(s, p) ==
  /\ connected[s]
  /\ Commit(MessageOf(World, s, p))
  /\ UNCHANGED <<variant, now, ticks, nextSweep>>

OnDisconnect(s) ==
  /\ connected[s]
  /\ Commit(discard(DisconnectOf(World, s), s))
  /\ UNCHANGED <<variant, now, ticks, nextSweep>>

\* setInterval(..., 60 * 1000): the callback runs no earlier than due
Sweep ==
  /\ now >= nextSweep
  /\ nextSweep' = now + SWEEP_INTERVAL
  /\ \E W \in {sweep(World)} : Commit(W)
  /\ UNCHANGED <<variant, now, ticks>>

\* the timer with handle h runs no earlier than due
TimerFires(h) ==
  \E t \in timers :
    /\ t.id = h
    /\ now >= t.due
    /\ Commit(timeout(World, t))
    /\ UNCHANGED <<variant, now, ticks, nextSweep>>

\* time passes
Advance(d) ==
  /\ ticks < MaxTicks
  /\ ticks' = ticks + 1
  /\ now' = now + d
  /\ UNCHANGED <<variant, nextSweep, rooms, file, timers, connected, data,
                 joinedRoom, userName, inRoom, live, everJoined>>

-----------------------------------------------------------------------------
(* Start of the process *)

StartTime == 2 * ONE_HOUR

\* rooms.json as an earlier run of the server left it: absent, or one room
\* that is an hour old and has no history yet
OldSnapshot ==
  (RoomA :> [createdAt |-> StartTime - ONE_HOUR,
             lastActiveAt |-> StartTime - ONE_HOUR,
             messages |-> <<>>,
             password |-> null, limit |-> null])

Snapshots == {<<>>, OldSnapshot}

\* loadRooms: every persisted room comes back with no members and no timer
loadRooms(f) ==
  [c \in DOMAIN f |->
     [createdAt |-> f[c].createdAt, lastActiveAt |-> f[c].lastActiveAt,
      messages |-> f[c].messages, members |-> 0, deleteTimerId |-> null,
      warningSent |-> FALSE, password |-> f[c].password,
      limit |-> f[c].limit, usernames |-> {}]]

Start(build, snapshots) ==
  /\ variant = build
  /\ now = StartTime
  /\ ticks = 0
  /\ nextSweep = StartTime + SWEEP_INTERVAL
  /\ file \in snapshots
  /\ rooms = loadRooms(file)
  /\ timers = {}
  /\ connected = [s \in Sockets |-> FALSE]
  /\ data = [s \in Sockets |-> undefined]
  /\ joinedRoom = [s \in Sockets |-> null]
  /\ userName = [s \in Sockets |-> null]
  /\ inRoom = [s \in Sockets |-> {}]
  /\ live = [s \in Sockets |-> {}]
  /\ everJoined = [s \in Sockets |-> FALSE]

Next ==
  \/ \E s \in Sockets : OnConnection(s)
  \/ \E s \in Sockets, p \in JoinInputs : OnJoin(s, p)
  \/ \E s \in Sockets, p \in MessageInputs : OnMessage(s, p)
  \/ \E s \in Sockets : OnDisconnect(s)
  \/ Sweep
  \/ \E h \in Handles : TimerFires(h)
  \/ \E d \in Elapsed : Advance(d)

\* the build with username tracking (part_000)
Init == Start("part_000", Snapshots)
Spec == Init /\ [][Next]_vars

\* the same build serving one connection at a time, with its scheduling:
\* the clock keeps running, and the setInterval callback runs whenever it
\* is due
NextSolo ==
  \/ OnConnection(1)
  \/ \E p \in JoinInputs : OnJoin(1, p)
  \/ \E p \in MessageInputs : OnMessage(1, p)
  \/ OnDisconnect(1)
  \/ Sweep
  \/ \E h \in Handles : TimerFires(h)
  \/ \E d \in Elapsed : Advance(d)

Fairness == WF_vars(Sweep) /\ WF_vars(\E d \in Elapsed : Advance(d))
SpecFair == Init /\ [][NextSolo]_vars /\ Fairness

\* the build with the "Deletion canceled" notice (server.js)
InitServer == Start("server.js", Snapshots)
SpecServer == InitServer /\ [][Next]_vars

\* the server.js build serving one connection at a time
SpecNotice == InitServer /\ [][NextSolo]_vars

-----------------------------------------------------------------------------
(* The history cap on its own: addMessage applied to a room whose history  *)
(* an earlier run left close to the cap.                                   *)

\* the history of n numbered messages an earlier run persisted
LongHistory(n) ==
  [i \in 1..n |-> [name |-> ANON, text |-> <<"h", "i">>, system |-> FALSE,
                   timestamp |-> i]]

StoredLengths == {HISTORY_MAX - 2, HISTORY_MAX - 1, HISTORY_MAX}

LongSnapshot(n) ==
  (RoomA :> [createdAt |-> StartTime, lastActiveAt |-> StartTime,
             messages |-> LongHistory(n), password |-> null,
             limit |-> null])

TrimNames == {ANON, <<"A">>}

InitTrim == Start("part_000", {LongSnapshot(n) : n \in StoredLengths})

\* addMessage(code, { name, text, system: false }), a millisecond apart
Append1(nm) ==
  /\ ticks < MaxAppends
  /\ ticks' = ticks + 1
  /\ now' = now + 1
  /\ Apply(addMessage(World, RoomA,
                      [name |-> nm, text |-> <<"h", "i">>, system |-> FALSE]))
  /\ UNCHANGED <<variant, nextSweep>>

NextTrim == \E nm \in TrimNames : Append1(nm)

SpecTrim == InitTrim /\ [][NextTrim]_vars

-----------------------------------------------------------------------------
(* Room codes at the boundary: joins whose room argument is whitespace or   *)
(* is padded with whitespace.                                              *)

BlankRoom == <<" ">>
PaddedRoomA == <<" ", "a", " ">>

BlankJoinInputs ==
  { JoinPayload(Str(BlankRoom), Str(<<"A">>), undefined, undefined),
    JoinPayload(Str(PaddedRoomA), Str(<<"B">>), undefined, undefined) }

NextBlank ==
  \/ \E s \in Sockets : OnConnection(s)
  \/ \E s \in Sockets, p \in BlankJoinInputs : OnJoin(s, p)
  \/ \E s \in Sockets, p \in MessageInputs : OnMessage(s, p)
  \/ \E s \in Sockets : OnDisconnect(s)
  \/ Sweep
  \/ \E h \in Handles : TimerFires(h)
  \/ \E d \in Elapsed : Advance(d)

SpecBlank == Init /\ [][NextBlank]_vars

-----------------------------------------------------------------------------
(* Vocabulary of the properties *)

\* the room and name a connection is bound to (undefined or null if none)
BoundRoom(s) ==
  IF variant = "part_000" THEN dataRoom(World, s) ELSE joinedRoom[s]
BoundName(s) ==
  IF variant = "part_000" THEN dataName(World, s) ELSE userName[s]

\* the room code a join payload resolves to
CodeOf(p) == trim(String(Or(p.room, Str(DEFAULT_ROOM))))

\* the display name a join payload resolves to
NameOf(p) == trim(String(Or(p.name, Str(ANON))))

\* the Name Policy accepts the payload's name (server.js has no policy)
NameValid(p) ==
  variant = "part_000" => isNameInvalid(World, NameOf(p), CodeOf(p)) = null

\* the handler was a join that ended in a join-error
Rejected(W) == W.out # <<>> /\ W.out[Len(W.out)].ev = "join-error"

\* the handler was a join that was accepted (server.js may emit the
\* "Deletion canceled" notice before the joined event)
Accepted(W) == \E i \in 1..Len(W.out) : W.out[i].ev = "joined"

\* connections that are open and joined the room now stored under code
Joined(code) == {s \in Sockets : connected[s] /\ code \in live[s]}

\* the open connections
Open == {s \in Sockets : connected[s]}

-----------------------------------------------------------------------------
(* C1: a join that ends in a join-error changes nothing: the store (codes  *)
(* and every field of every room), the snapshot, the timers and the        *)
(* connection's bound room and name are the same after it as before,       *)
(* also when the code was not in the store before the join.                *)

C1_RejectedJoinChangesNothing ==
  \A s \in Open, p \in JoinInputs :
    LET W == JoinOf(World, s, p)
    IN  Rejected(W) =>
          /\ W.rooms = rooms
          /\ W.file = file
          /\ W.timers = timers
          /\ W.data = data
          /\ W.joinedRoom = joinedRoom
          /\ W.userName = userName

(* C2: members of every stored room equals the number of open connections  *)
(* that joined it and have not disconnected.                               *)

C2_MembersCountsConnections ==
  \A c \in DOMAIN rooms : rooms[c].members = Cardinality(Joined(c))

(* C3: no two open connections bound to the same room have names with the  *)
(* same lower-cased form.                                                  *)

C3_NamesUniquePerRoom ==
  \A s1, s2 \in Open :
    (/\ s1 # s2
     /\ data[s1] # undefined /\ data[s2] # undefined
     /\ data[s1].room = data[s2].room)
    => toLowerCase(data[s1].name) # toLowerCase(data[s2].name)

(* C4: every room whose limit is non-null has members <= limit.            *)

C4_MembersWithinLimit ==
  \A c \in DOMAIN rooms :
    rooms[c].limit # null => rooms[c].members <= rooms[c].limit.num

(* C5: password and limit are set-once: once non-null, the field keeps its  *)
(* value in every later state in which the room is still stored, whatever  *)
(* the join, message, disconnect, sweep or timer step.                     *)

C5_SetOnce ==
  [][\A c \in DOMAIN rooms \cap DOMAIN rooms' :
       /\ rooms[c].password # null => rooms'[c].password = rooms[c].password
       /\ rooms[c].limit # null => rooms'[c].limit = rooms[c].limit]_vars

\* "B" (password p, limit 1) has joined a room whose limit 2 an earlier
\* joiner had set: the room has its password from B and still limit 2
C5_Witness ==
  /\ RoomA \in DOMAIN rooms
  /\ rooms[RoomA].limit = Num(2)
  /\ rooms[RoomA].password = Str(<<"p">>)
  /\ \E s \in Joined(RoomA) : BoundName(s) = Str(<<"B">>)

(* C6, as amended: a join to a room with an established password that      *)
(* supplies any other password ends in a join-error and leaves the room's  *)
(* members, usernames and history as they were; the error is the generic   *)
(* wrong-password one whenever the name passes the Name Policy (which      *)
(* part_000 runs first).  A join with the matching password, a valid name  *)
(* and the room below its limit is accepted and adds one to members.       *)

Established(p) ==
  CodeOf(p) \in DOMAIN rooms /\ rooms[CodeOf(p)].password # null

RoomUntouched(W, code) ==
  /\ code \in DOMAIN W.rooms
  /\ W.rooms[code].members = rooms[code].members
  /\ W.rooms[code].usernames = rooms[code].usernames
  /\ W.rooms[code].messages = rooms[code].messages

C6_PasswordGate ==
  \A s \in Open, p \in JoinInputs :
    LET code == CodeOf(p)
        W == JoinOf(World, s, p)
    IN  Established(p) =>
          IF p.password # rooms[code].password
          THEN /\ Rejected(W)
               /\ RoomUntouched(W, code)
               /\ NameValid(p) => W.out[1].error = ERR_PASSWORD
          ELSE (/\ NameValid(p)
                /\ ~(rooms[code].limit # null
                     /\ rooms[code].members >= rooms[code].limit.num))
               => /\ Accepted(W)
                  /\ W.rooms[code].members = rooms[code].members + 1

\* a member holds a room with password p, and a join with a valid name
\* and another password is refused there with the generic error
C6_Witness ==
  /\ RoomA \in DOMAIN rooms
  /\ rooms[RoomA].password = Str(<<"p">>)
  /\ Joined(RoomA) # {}
  /\ \E s \in Open, p \in JoinInputs :
       /\ CodeOf(p) = RoomA
       /\ p.password # Str(<<"p">>)
       /\ NameValid(p)
       /\ Rejected(JoinOf(World, s, p))
       /\ JoinOf(World, s, p).out[1].error = ERR_PASSWORD

(* C6 as stated: every join with another password gets the generic         *)
(* wrong-password join-error.                                              *)

C6_Original ==
  \A s \in Open, p \in JoinInputs :
    LET code == CodeOf(p)
        W == JoinOf(World, s, p)
    IN  (Established(p) /\ p.password # rooms[code].password)
        => /\ Rejected(W)
           /\ W.out[1].error = ERR_PASSWORD
           /\ RoomUntouched(W, code)

(* C7: a room is removed by a timer callback only if the handle that fires *)
(* is the one recorded in the room's deleteTimerId; a handle that activity  *)
(* cancelled deletes nothing when its deadline passes.                     *)

C7_OnlyRecordedTimerDeletes ==
  [][\A h \in Handles :
       (TimerFires(h) /\ DOMAIN rooms' # DOMAIN rooms)
       => \E t \in timers :
            /\ t.id = h
            /\ t.code \in DOMAIN rooms
            /\ rooms[t.code].deleteTimerId = [timer |-> h]]_vars

\* the room was warned (its timer scheduled), activity cancelled the timer,
\* the 60 seconds have passed, and the room is still stored
C7_Witness ==
  /\ RoomA \in DOMAIN rooms
  /\ rooms[RoomA].deleteTimerId = null
  /\ timers = {}
  /\ \E i \in 1..Len(rooms[RoomA].messages) :
       /\ rooms[RoomA].messages[i].text = WARN_TEXT
       /\ now >= rooms[RoomA].messages[i].timestamp + GRACE_DELAY

(* C8: a disconnect that brings members to zero removes the room within    *)
(* the disconnect handler, and room-deleted is the last event of the room: *)
(* no handler emits an event for a code after its room-deleted, and a      *)
(* message event is emitted only for a code that is stored.                *)

RoomEvent(e, code) ==
  e.ev \in {"message", "room-deleted", "joined"} /\ e.room = code

DeletedIsLast(W) ==
  \A i \in 1..Len(W.out) :
    /\ W.out[i].ev = "room-deleted"
       => /\ W.out[i].room \notin DOMAIN W.rooms
          /\ \A j \in (i + 1)..Len(W.out) : ~RoomEvent(W.out[j], W.out[i].room)
    /\ W.out[i].ev = "message" => W.out[i].room \in DOMAIN W.rooms

\* the connection is bound to a stored room that it is the last member of
LastMember(s) ==
  /\ Truthy(BoundRoom(s))
  /\ BoundRoom(s).str \in DOMAIN rooms
  /\ rooms[BoundRoom(s).str].members <= 1

C8_DeletedOnLastLeave ==
  /\ \A s \in Open :
       LET W == DisconnectOf(World, s)
       IN  /\ DeletedIsLast(W)
           /\ LastMember(s) =>
                /\ BoundRoom(s).str \notin DOMAIN W.rooms
                /\ W.out # <<>>
                /\ W.out[Len(W.out)].ev = "room-deleted"
                /\ W.out[Len(W.out)].room = BoundRoom(s).str
  /\ \A s \in Open, p \in JoinInputs : DeletedIsLast(JoinOf(World, s, p))
  /\ \A s \in Open, p \in MessageInputs : DeletedIsLast(MessageOf(World, s, p))
  /\ DeletedIsLast(sweep(World))
  /\ \A t \in timers : DeletedIsLast(timeout(World, t))

\* the only member of a room with history is about to disconnect
C8_Witness ==
  \E s \in Open :
    /\ LastMember(s)
    /\ BoundRoom(s).str = RoomA
    /\ rooms[RoomA].members = 1
    /\ Joined(RoomA) = {s}
    /\ RoomA \notin DOMAIN DisconnectOf(World, s).rooms

(* C9: when a connection bound to a stored room disconnects and other      *)
(* connections remain in the room, the "X left" notice is appended to the  *)
(* history and broadcast to them as a message event.                       *)

C9_LeftNoticeBroadcast ==
  \A s \in Open :
    LET code == BoundRoom(s)
        text == String(Or(BoundName(s), Str(ANON))) \o LEFT_SUFFIX
        others == {x \in Sockets \ {s} : code.str \in inRoom[x]}
        W == DisconnectOf(World, s)
    IN  (Truthy(code) /\ code.str \in DOMAIN rooms /\ others # {})
        => /\ code.str \in DOMAIN W.rooms =>
                \E k \in 1..Len(W.rooms[code.str].messages) :
                  W.rooms[code.str].messages[k].text = text
           /\ \E i \in 1..Len(W.out) :
                /\ W.out[i].ev = "message"
                /\ W.out[i].room = code.str
                /\ W.out[i].msg.text = text
                /\ W.out[i].to = others

(* C10: a history never holds more than 1000 messages between operations,  *)
(* and an append that makes it exceed 1000 leaves exactly the 800 most     *)
(* recent messages, the appended one included, in their original order.    *)

C10_HistoryBounded ==
  /\ [](\A c \in DOMAIN rooms : Len(rooms[c].messages) <= HISTORY_MAX)
  /\ [][\A c \in DOMAIN rooms \cap DOMAIN rooms' :
          LET old == rooms[c].messages
              new == rooms'[c].messages
              full == Append(old, new[Len(new)])
          IN  new # old =>
                IF Len(full) > HISTORY_MAX
                THEN /\ Len(new) = HISTORY_KEEP
                     /\ \A i \in 1..HISTORY_KEEP :
                          new[i] = full[Len(full) - HISTORY_KEEP + i]
                ELSE new = full]_vars

\* an append has just trimmed a stored history: 800 messages remain, the
\* oldest of them from the earlier run and the newest just appended
C10_Witness ==
  /\ RoomA \in DOMAIN rooms
  /\ Len(rooms[RoomA].messages) = HISTORY_KEEP
  /\ rooms[RoomA].messages[1].timestamp = HISTORY_MAX + 1 - HISTORY_KEEP + 1
  /\ rooms[RoomA].messages[HISTORY_KEEP].timestamp >= StartTime

(* C11: members of every stored room is >= 0, and the disconnect of a       *)
(* connection that never completed a successful join, also one whose joins *)
(* were all rejected, leaves every room's members, usernames and history   *)
(* as they were, deletes no room and emits nothing.                        *)

\* the handler left the codes, members, usernames and histories of rs alone
RoomsKept(W, rs) ==
  /\ DOMAIN W.rooms = DOMAIN rs
  /\ \A c \in DOMAIN rs :
       /\ W.rooms[c].members = rs[c].members
       /\ W.rooms[c].usernames = rs[c].usernames
       /\ W.rooms[c].messages = rs[c].messages
  /\ W.out = <<>>

\* the world in which the next handler of the connection starts
Then(W) == [W EXCEPT !.out = <<>>]

C11_NeverJoinedDisconnect ==
  /\ \A c \in DOMAIN rooms : rooms[c].members >= 0
  /\ \A s \in Open :
       ~everJoined[s] =>
         /\ RoomsKept(DisconnectOf(World, s), rooms)
         /\ \A p \in JoinInputs :
              LET W == JoinOf(World, s, p)
              IN  Rejected(W) =>
                    RoomsKept(DisconnectOf(Then(W), s), W.rooms)

\* a connection that never joined is about to disconnect while another
\* holds the room, and a join it would send is refused there
C11_Witness ==
  \E s \in Open :
    /\ ~everJoined[s]
    /\ RoomA \in DOMAIN rooms
    /\ rooms[RoomA].members >= 1
    /\ rooms[RoomA].messages # <<>>
    /\ Joined(RoomA) # {}
    /\ \E p \in JoinInputs :
         /\ CodeOf(p) = RoomA
         /\ Rejected(JoinOf(World, s, p))
         /\ DisconnectOf(Then(JoinOf(World, s, p)), s).rooms[RoomA].members
              = rooms[RoomA].members

(* C12: the store never holds a room under the empty code, whatever the    *)
(* room argument of a join (whitespace only, padded), and the              *)
(* disconnect of a connection that joined takes one off the members of the *)
(* room it joined, or removes that room.                                   *)

C12_NoEmptyCode ==
  /\ <<>> \notin DOMAIN rooms
  /\ \A s \in Open :
       \A c \in live[s] \cap DOMAIN rooms :
         LET W == DisconnectOf(World, s)
         IN  c \in DOMAIN W.rooms =>
               W.rooms[c].members = rooms[c].members - 1

(* C13: right after every accepted message event and every accepted join,  *)
(* the room of the event has no pending deletion timer and warningSent is  *)
(* false, whatever its timer state was before.                             *)

\* the room code a message payload resolves to on connection s
MsgCodeOf(s, p) == String(Or(p.room, Or(BoundRoom(s), Str(DEFAULT_ROOM))))

\* the handler appended and broadcast a message
Delivered(W) == W.out # <<>> /\ W.out[Len(W.out)].ev = "message"

\* room code is stored, has no timer recorded or outstanding, is not warned
Reprieved(W, code) ==
  /\ code \in DOMAIN W.rooms
  /\ W.rooms[code].deleteTimerId = null
  /\ ~W.rooms[code].warningSent
  /\ \A t \in W.timers : t.code # code

C13_ActivityReprieves ==
  /\ \A s \in Open, p \in MessageInputs :
       LET W == MessageOf(World, s, p)
       IN  Delivered(W) => Reprieved(W, MsgCodeOf(s, p))
  /\ \A s \in Open, p \in JoinInputs :
       LET W == JoinOf(World, s, p)
       IN  Accepted(W) => Reprieved(W, CodeOf(p))

\* the room is warned and its timer pending; a message and a join are both
\* about to be accepted there
C13_Witness ==
  /\ RoomA \in DOMAIN rooms
  /\ rooms[RoomA].warningSent
  /\ \E t \in timers : t.code = RoomA /\ rooms[RoomA].deleteTimerId.timer = t.id
  /\ \E s \in Open, p \in MessageInputs :
       MsgCodeOf(s, p) = RoomA /\ Delivered(MessageOf(World, s, p))
  /\ \E s \in Open, p \in JoinInputs :
       CodeOf(p) = RoomA /\ Accepted(JoinOf(World, s, p))

(* C14: the sweep removes every room whose members is 0, whatever its age,  *)
(* with no warning and no grace timer; so with the sweep running whenever  *)
(* it is due, a stored room with members 0 is eventually removed unless a  *)
(* join gives it a member first (or the bounded clock of the model has     *)
(* stopped before the next sweep is due).                                  *)

\* no time is left in the run and the sweep is not due
ClockStopped == ticks = MaxTicks /\ now < nextSweep

Empty(c) == c \in DOMAIN rooms /\ rooms[c].members = 0

\* the sweep removes the empty room c and does nothing else about it
SweptAway(W, c) ==
  /\ c \notin DOMAIN W.rooms
  /\ \A t \in W.timers \ timers : t.code # c
  /\ \A i \in 1..Len(W.out) :
       W.out[i].room = c => W.out[i].ev = "room-deleted"

C14_EmptyRoomsSwept ==
  /\ [](\A c \in DOMAIN rooms : Empty(c) => SweptAway(sweep(World), c))
  /\ \A c \in {RoomA} :
       Empty(c) ~> (~Empty(c) \/ ClockStopped)

\* a message to an unknown code created the room a moment ago; it has no
\* members, the sweep is due and is about to remove it
C14_Witness ==
  /\ Empty(RoomA)
  /\ rooms[RoomA].createdAt = now
  /\ rooms[RoomA].messages # <<>>
  /\ ~rooms[RoomA].messages[1].system
  /\ now >= nextSweep
  /\ RoomA \notin DOMAIN sweep(World).rooms

(* C15: a sweep that finds a room with members > 0, at least an hour old   *)
(* and with no timer schedules exactly one timer for it, due in 60         *)
(* seconds, and appends and broadcasts exactly one warning.  Until an      *)
(* accepted message, an accepted join or a disconnect on that room, every  *)
(* other handler leaves the timer pending, and when it fires the room is   *)
(* removed although members > 0.                                           *)

\* the sweep would schedule the age timer for room c
Stale(c) ==
  /\ c \in DOMAIN rooms
  /\ rooms[c].members > 0
  /\ now - rooms[c].createdAt >= ONE_HOUR
  /\ rooms[c].deleteTimerId = null

\* the outstanding timers of room c
TimersOf(W, c) == {t \in W.timers : t.code = c}

\* the events of the handler that go to room c
EventsOf(W, c) == {i \in 1..Len(W.out) : W.out[i].room = c}

\* the sweep scheduled one timer for c and warned its members once
WarnedOnce(W, c) ==
  /\ c \in DOMAIN W.rooms
  /\ W.rooms[c].warningSent
  /\ W.rooms[c].members = rooms[c].members
  /\ TimersOf(W, c) = {[id |-> W.rooms[c].deleteTimerId.timer, code |-> c,
                         due |-> now + GRACE_DELAY]}
  /\ W.rooms[c].messages =
       Append(rooms[c].messages,
              [name |-> SYSTEM, text |-> WARN_TEXT, system |-> TRUE,
               timestamp |-> now])
  /\ \E i \in 1..Len(W.out) :
       /\ EventsOf(W, c) = {i}
       /\ W.out[i] = MessageEvent(c, InRoomOf(World, c), SystemMsg(WARN_TEXT))

\* room c has members and its age timer is pending
Pending(c) ==
  /\ c \in DOMAIN rooms
  /\ rooms[c].members > 0
  /\ rooms[c].deleteTimerId # null
  /\ \E t \in timers : t.code = c /\ t.id = rooms[c].deleteTimerId.timer

\* the handler left the timer of room c pending
StillPending(W, c) ==
  /\ c \in DOMAIN W.rooms
  /\ W.rooms[c].deleteTimerId = rooms[c].deleteTimerId
  /\ TimersOf(W, c) = TimersOf(World, c)

C15_AgeExpiry ==
  \A c \in DOMAIN rooms :
    /\ Stale(c) => WarnedOnce(sweep(World), c)
    /\ Pending(c) =>
         /\ StillPending(sweep(World), c)
         /\ \A s \in Open, p \in JoinInputs :
              LET W == JoinOf(World, s, p)
              IN  (~Accepted(W) \/ CodeOf(p) # c) => StillPending(W, c)
         /\ \A s \in Open, p \in MessageInputs :
              LET W == MessageOf(World, s, p)
              IN  (~Delivered(W) \/ MsgCodeOf(s, p) # c) => StillPending(W, c)
         /\ \A s \in Open :
              BoundRoom(s) # Str(c) => StillPending(DisconnectOf(World, s), c)
         /\ \A t \in TimersOf(World, c) :
              LET W == timeout(World, t)
              IN  /\ c \notin DOMAIN W.rooms
                  /\ \E i \in 1..Len(W.out) :
                       W.out[i].ev = "room-deleted" /\ W.out[i].room = c

\* the room was warned 60 seconds ago or more, nothing happened in it
\* since, a member is still there and the timer is about to fire
C15_Witness ==
  /\ Pending(RoomA)
  /\ rooms[RoomA].warningSent
  /\ Joined(RoomA) # {}
  /\ rooms[RoomA].messages[Len(rooms[RoomA].messages)].text = WARN_TEXT
  /\ \E t \in timers : t.code = RoomA /\ now >= t.due

(* C16: every stored room is ACTIVE (no timer, not warned) or WARNED (one  *)
(* timer pending, warned): between handlers a deletion timer is pending    *)
(* for a room exactly if its warningSent is true, at most one timer is     *)
(* outstanding per room, and a sweep over a room that has a timer          *)
(* schedules no second one and sends no second warning.                    *)

\* no timer recorded or outstanding, not warned
Active(c) ==
  /\ rooms[c].deleteTimerId = null
  /\ ~rooms[c].warningSent
  /\ TimersOf(World, c) = {}

\* the recorded timer is the one outstanding timer, and the room is warned
Warned(c) ==
  /\ rooms[c].deleteTimerId # null
  /\ rooms[c].warningSent
  /\ \E t \in timers :
       TimersOf(World, c) = {t} /\ t.id = rooms[c].deleteTimerId.timer

C16_ActiveOrWarned ==
  \A c \in DOMAIN rooms :
    /\ Active(c) \/ Warned(c)
    /\ Warned(c) =>
         LET W == sweep(World)
         IN  /\ StillPending(W, c)
             /\ W.rooms[c].messages = rooms[c].messages
             /\ EventsOf(W, c) = {}

\* the room is warned, and the next sweep is due while its timer is still
\* outstanding
C16_Witness ==
  /\ RoomA \in DOMAIN rooms
  /\ Warned(RoomA)
  /\ now >= nextSweep
  /\ \E i \in 1..Len(rooms[RoomA].messages) :
       rooms[RoomA].messages[i].text = WARN_TEXT

(* C17: no deletion timer outlives its room: every outstanding timer is    *)
(* the one recorded in deleteTimerId of the room now stored under its      *)
(* code, so a room removed by a disconnect or by the sweep leaves no timer *)
(* behind that could delete a later room of the same code.                 *)

\* every outstanding timer of the world is recorded in its stored room
TimersRecorded(W) ==
  \A t \in W.timers :
    /\ t.code \in DOMAIN W.rooms
    /\ W.rooms[t.code].deleteTimerId = [timer |-> t.id]

C17_NoTimerOutlivesRoom ==
  /\ TimersRecorded(World)
  /\ \A s \in Open : TimersRecorded(DisconnectOf(World, s))
  /\ TimersRecorded(sweep(World))

\* the last member of a warned room is about to disconnect while the
\* timer is pending: the handler removes the room and leaves no timer
C17_Witness ==
  \E s \in Open :
    /\ Pending(RoomA)
    /\ BoundRoom(s) = Str(RoomA)
    /\ rooms[RoomA].members = 1
    /\ RoomA \notin DOMAIN DisconnectOf(World, s).rooms
    /\ DisconnectOf(World, s).timers = {}

(* C18: between handlers the snapshot last written tracks the store: it    *)
(* holds exactly the codes of the store, each with the createdAt,          *)
(* lastActiveAt, messages, password and limit the room has in memory; a    *)
(* removed code is not in the snapshot.                                    *)

C18_SnapshotTracksStore ==
  /\ DOMAIN file = DOMAIN rooms
  /\ \A c \in DOMAIN rooms :
       /\ file[c].createdAt = rooms[c].createdAt
       /\ file[c].lastActiveAt = rooms[c].lastActiveAt
       /\ file[c].messages = rooms[c].messages
       /\ file[c].password = rooms[c].password
       /\ file[c].limit = rooms[c].limit

\* the age timer removed the room a connection is still bound to: the code
\* is gone from the store and from the snapshot
C18_Witness ==
  /\ \E s \in Open : BoundRoom(s) = Str(RoomA)
  /\ RoomA \notin DOMAIN rooms
  /\ RoomA \notin DOMAIN file

(* C19: the message events a handler emits to a room come in the order in  *)
(* which the handler appended the corresponding entries to the room's      *)
(* history; so when an accepted message or join cancels a pending          *)
(* deletion, the "Deletion canceled" notice and the triggering message     *)
(* have the same order in the history and in the broadcast.                *)

\* b is a subsequence of a: the elements of b occur in a in the same order
RECURSIVE IsSubseq(_, _)
IsSubseq(b, a) ==
  IF b = <<>> THEN TRUE
  ELSE IF a = <<>> THEN FALSE
  ELSE IF Head(a) = Head(b) THEN IsSubseq(Tail(b), Tail(a))
  ELSE IsSubseq(b, Tail(a))

\* the entries the handler appended to the history of room c, in order
AppendedTo(W, c) ==
  LET before == IF c \in DOMAIN rooms THEN Len(rooms[c].messages) ELSE 0
      after == W.rooms[c].messages
  IN  [i \in 1..(Len(after) - before) |->
         [name |-> after[before + i].name, text |-> after[before + i].text,
          system |-> after[before + i].system]]

\* the messages the handler broadcast to room c, in order
BroadcastTo(W, c) ==
  LET evs == SelectSeq(W.out, LAMBDA e : e.ev = "message" /\ e.room = c)
  IN  [i \in 1..Len(evs) |-> evs[i].msg]

SameOrder(W) ==
  \A c \in DOMAIN W.rooms : IsSubseq(BroadcastTo(W, c), AppendedTo(W, c))

C19_BroadcastFollowsHistory ==
  /\ \A s \in Open, p \in MessageInputs : SameOrder(MessageOf(World, s, p))
  /\ \A s \in Open, p \in JoinInputs : SameOrder(JoinOf(World, s, p))
  /\ \A s \in Open : SameOrder(DisconnectOf(World, s))
  /\ SameOrder(sweep(World))

====
